---- MODULE Spec2Model ----
(***************************************************************************)
(* Incentive dashboard: the client-side derived state (totals, logs, tier  *)
(* summaries) of the four dashboard variants of the repository, run        *)
(* against the hosted store (tables incentives / contributions, INSERT     *)
(* notifications).                                                         *)
(*                                                                         *)
(*   "jsx"  src/src/IncentiveDashboard.jsx    totals + contribs, optimistic*)
(*          submit, placeholder replaced by the stored row on success      *)
(*   "p0"   src/unnamed/part_000              totals + logs, optimistic    *)
(*          submit, placeholder kept on success                            *)
(*   "p1"   src/unnamed/part_001 (and the first component of part_002)     *)
(*          totals only, optimistic add of positive amounts                *)
(*   "p2"   src/unnamed/part_002, second component: totals + logs, no      *)
(*          optimistic update, state changes only through notifications    *)
(*                                                                         *)
(* JavaScript numbers are modelled as exact rationals (no rounding) plus   *)
(* NaN, +Infinity, -Infinity and undefined.                                *)
(***************************************************************************)
EXTENDS Integers, Sequences, FiniteSets, TLC

\* ------------------------------------------------------------ bounds
\* contributions made in a run: the submits accepted on the dashboard plus the
\* rows inserted by the other clients of the store
MaxEvents == 2
\* last value of the clock (milliseconds, shared by the store and the client)
MaxClock == 1
\* longest list of contribution records handed to the load-time aggregation
MaxLen == 3

\* ------------------------------------------------------------ JS values
Abs(x) == IF x < 0 THEN -x ELSE x

RECURSIVE Gcd(_, _)
Gcd(a, b) == IF b = 0 THEN a ELSE Gcd(b, a % b)

\* n/d with d > 0, in lowest terms
Rat(n, d) ==
    LET g == Gcd(Abs(n), d)
    IN  [k |-> "num", n |-> n \div g, d |-> d \div g, s |-> ""]

Num(n) == [k |-> "num", n |-> n, d |-> 1, s |-> ""]
NaN == [k |-> "nan", n |-> 0, d |-> 1, s |-> ""]
Infinity == [k |-> "inf", n |-> 1, d |-> 1, s |-> ""]
NegInfinity == [k |-> "inf", n |-> -1, d |-> 1, s |-> ""]
Undefined == [k |-> "undef", n |-> 0, d |-> 1, s |-> ""]
Null == [k |-> "null", n |-> 0, d |-> 1, s |-> ""]
Str(s) == [k |-> "str", n |-> 0, d |-> 1, s |-> s]

IsNum(x) == x.k = "num"
IsInf(x) == x.k = "inf"

\* Number.isFinite(x)
IsFinite(x) == IsNum(x)

\* the sign of a number or an infinity: -1, 0, 1
Sign(x) == IF x.n > 0 THEN 1 ELSE IF x.n < 0 THEN -1 ELSE 0

\* the operand of an arithmetic operator: null counts as 0, undefined as NaN
Operand(x) ==
    CASE x.k = "null" -> Num(0)
      [] x.k \in {"num", "inf"} -> x
      [] OTHER -> NaN

\* a + b
Plus(x, y) ==
    LET a == Operand(x)
        b == Operand(y)
    IN  IF IsNum(a) /\ IsNum(b) THEN Rat(a.n * b.d + b.n * a.d, a.d * b.d)
        ELSE IF IsInf(a) /\ IsInf(b) THEN (IF a = b THEN a ELSE NaN)
        ELSE IF IsInf(a) /\ IsNum(b) THEN a
        ELSE IF IsNum(a) /\ IsInf(b) THEN b
        ELSE NaN

\* -a
Neg(x) ==
    LET a == Operand(x)
    IN  IF IsNum(a) \/ IsInf(a) THEN [a EXCEPT !.n = -a.n] ELSE NaN

\* a - b
Minus(a, b) == Plus(a, Neg(b))

\* a * b
Times(x, y) ==
    LET a == Operand(x)
        b == Operand(y)
    IN  IF IsNum(a) /\ IsNum(b) THEN Rat(a.n * b.n, a.d * b.d)
        ELSE IF (IsNum(a) \/ IsInf(a)) /\ (IsNum(b) \/ IsInf(b))
             THEN (IF Sign(a) * Sign(b) = 0 THEN NaN
                   ELSE IF Sign(a) * Sign(b) > 0 THEN Infinity ELSE NegInfinity)
        ELSE NaN

\* a / b
Div(x, y) ==
    LET a == Operand(x)
        b == Operand(y)
    IN  IF IsNum(a) /\ IsNum(b)
        THEN (IF b.n = 0
              THEN (IF a.n = 0 THEN NaN
                    ELSE IF a.n > 0 THEN Infinity ELSE NegInfinity)
              ELSE Rat(a.n * b.d * Sign(b), a.d * Abs(b.n)))
        ELSE IF IsInf(a) /\ IsNum(b)
             THEN (IF Sign(b) >= 0 THEN a ELSE Neg(a))
        ELSE IF IsNum(a) /\ IsInf(b) THEN Num(0)
        ELSE NaN

\* a <= b, false when either side is NaN or undefined
Leq(x, y) ==
    LET a == Operand(x)
        b == Operand(y)
    IN  IF IsNum(a) /\ IsNum(b) THEN a.n * b.d <= b.n * a.d
        ELSE IF IsInf(a) /\ (IsNum(b) \/ IsInf(b)) THEN a.n < 0 \/ a = b
        ELSE IF IsNum(a) /\ IsInf(b) THEN b.n > 0
        ELSE FALSE

\* a > b, false when either side is NaN or undefined
Gt(a, b) == Leq(b, a) /\ Operand(a) # Operand(b)

\* Math.min(a, b)
MathMin(x, y) ==
    LET a == Operand(x)
        b == Operand(y)
    IN  IF a = NaN \/ b = NaN THEN NaN ELSE IF Leq(a, b) THEN a ELSE b

\* Math.max(a, b)
MathMax(x, y) ==
    LET a == Operand(x)
        b == Operand(y)
    IN  IF a = NaN \/ b = NaN THEN NaN ELSE IF Leq(a, b) THEN b ELSE a

\* Math.abs(a)
MathAbs(x) ==
    LET a == Operand(x)
    IN  IF a = NaN THEN NaN ELSE [a EXCEPT !.n = Abs(a.n)]

\* truthiness of a value: 0, NaN, undefined and "" are falsy
Truthy(x) ==
    CASE x.k = "num" -> x.n # 0
      [] x.k = "inf" -> TRUE
      [] x.k = "str" -> x.s # ""
      [] OTHER -> FALSE

\* x || dflt
OrElse(x, dflt) == IF Truthy(x) THEN x ELSE dflt

\* x ?? dflt
Nullish(x, dflt) == IF x.k \in {"undef", "null"} THEN dflt ELSE x

\* the strings typed into an amount field, and the number each one denotes
RawStrings == {"", "abc", "0", "4", "-4"}

StringToNumber(s) ==
    CASE s = "" -> Num(0)
      [] s = "0" -> Num(0)
      [] s = "4" -> Num(4)
      [] s = "-4" -> Num(-4)
      [] OTHER -> NaN

\* Number(x)
ToNumber(x) ==
    CASE x.k = "str" -> StringToNumber(x.s)
      [] x.k = "undef" -> NaN
      [] x.k = "null" -> Num(0)
      [] OTHER -> x

\* parseInt(x): no digits at the start give NaN
ParseInt(x) ==
    CASE x.k = "str" -> (IF x.s = "" THEN NaN ELSE StringToNumber(x.s))
      [] x.k = "num" -> Rat(Sign(x) * (Abs(x.n) \div x.d), 1)
      [] OTHER -> NaN

\* t[id] of an object used as a map: undefined when the key is absent
Lookup(t, id) == IF id \in DOMAIN t THEN t[id] ELSE Undefined

\* { ...t, [id]: v }
Put(t, id, v) == [x \in DOMAIN t \cup {id} |-> IF x = id THEN v ELSE t[x]]

\* {} : the empty object
EmptyMap == [x \in {} |-> Undefined]

\* ------------------------------------------------------------ program constants
TIER1_NAMES ==
    {"Client Meetings", "New Jobs", "Content", "CVs Out", "Registrations",
     "BD Conversations"}
SALES_TIER2_NAME == "Sales Incentive - Tier 2"
SALES_TIER2_TARGET == 100000
SALES_TIER3_TARGET == 150000

Variants == {"jsx", "p0", "p1", "p2"}
\* every variant applying a submit to totals before the insert returns
OptimisticAll == Variants
\* the variants that apply a submit to totals before the insert returns
Optimistic == {"jsx", "p0", "p1"}
\* the variants that keep a log of contributions
Logging == {"jsx", "p0", "p2"}
\* the variants that show the three tier summaries
Tiered == {"jsx", "p0", "p2"}

Inc(id, name, target) == [id |-> id, name |-> name, target |-> Num(target)]

\* demo seed of IncentiveDashboard.jsx and part_000
DemoIncentives ==
    << Inc("a1", "Client Meetings", 16), Inc("a2", "New Jobs", 25),
       Inc("a3", "Content", 56), Inc("a4", "CVs Out", 140),
       Inc("a5", "Registrations", 180), Inc("a6", "BD Conversations", 140),
       Inc("s2", SALES_TIER2_NAME, SALES_TIER2_TARGET) >>

\* demo seed of part_001 / part_002 (first component)
DemoIncentivesP1 ==
    << Inc("1", "Q4 Sales", 40), Inc("2", "New Logos", 25),
       Inc("3", "Customer Upsells", 15) >>

\* contents of the store's incentives table the dashboard may be run against
StoreIncentives ==
    { << Inc("a1", "Client Meetings", 10), Inc("a2", "New Jobs", 20),
         Inc("s2", SALES_TIER2_NAME, 4) >>,
      << Inc("x1", "Q4 Sales", 40), Inc("t3", "Sales Incentive - Tier 3", 150000) >> }

\* amounts written by the other clients of the store
ExtAmounts == {Num(4)}

\* the value of an amount field: never typed in, or a string
RawInputs == {Undefined} \cup {Str(s) : s \in RawStrings}

\* messages of the store's errors
ReadError == "read failed"
InsertError == "insert failed"

NoRow == [id |-> <<"none", 0>>, incentive_id |-> "", amount |-> Undefined,
          note |-> "null", created_at |-> 0]

\* ------------------------------------------------------------ state
VARIABLES
    variant,        \* which dashboard is running
    live,           \* supabase # null (endpoint URL and access key both set)
    dbIncentives,   \* the store's incentives table
    dbContribs,     \* the store's contributions table, in commit order
    channel,        \* INSERT notifications on their way to this client
    subPc,          \* the realtime subscription: "none", "joining", "joined"
    now,            \* the clock
    loadPc,         \* the initial load: "mount", "incs", "contribs", then "done"
                    \* or, when a read threw, "failed"; "again" once the
                    \* aggregation was called a second time
    reply,          \* the contributions read on its way back to the client
    incentives, totals, logs, contribs, loading, error, alerted,
    incChannel,     \* incentives-INSERT notifications on their way to this client
    filled,         \* part_002, second component: the cards whose amount and note
                    \* fields still hold the text of a submit (inputs, notes)
    consoleErr,     \* what console.error last wrote
    writes,         \* the inserts awaiting their outcome, by submit number
    nsub,           \* submits accepted so far
    nother,         \* rows inserted by the other clients so far
    storage         \* localStorage

vars ==
    << variant, live, dbIncentives, dbContribs, channel, subPc, now, loadPc,
       reply, incentives, totals, logs, contribs, loading, error, alerted, incChannel, filled, consoleErr,
       writes, nsub, nother, storage >>

store == << dbIncentives, dbContribs, channel, subPc >>
clientData == << incentives, totals, logs, contribs >>

NoReply == [k |-> "none", rows |-> << >>]
Rows(rows) == [k |-> "rows", rows |-> rows]
EmptyStorage ==
    [demo_totals |-> EmptyMap, demo_contribs |-> << >>, demo_incentives |-> << >>,
     has_incentives |-> FALSE]

\* the state after the component is constructed (useState initial values),
\* before its effects run
Init ==
    /\ variant \in Variants
    /\ live \in (IF variant = "p2" THEN {TRUE} ELSE BOOLEAN)
    /\ dbIncentives \in (IF live THEN StoreIncentives ELSE {<< >>})
    /\ dbContribs = << >>
    /\ channel = {}
    /\ subPc = "none"
    /\ now = 0
    /\ loadPc = "mount"
    /\ reply = NoReply
    /\ incentives = << >>
    /\ totals = EmptyMap
    /\ logs = EmptyMap
    /\ contribs = << >>
    /\ loading = (variant # "p2")
    /\ error = "null"
    /\ alerted = "null"
    /\ consoleErr = "null"
    /\ incChannel = {}
    /\ filled = {}
    /\ writes = EmptyMap
    /\ nsub = 0
    /\ nother = 0
    /\ storage = EmptyStorage

\* ------------------------------------------------------------ aggregation
\* lg[id] || []
LogOf(lg, id) == IF id \in DOMAIN lg THEN lg[id] ELSE << >>

\* new Date(created_at): the instant, in milliseconds
DateOf(created_at) == created_at

\* one step of Array.prototype.sort (stable) under the comparator
\* (a, b) => new Date(b.created_at) - new Date(a.created_at)
RECURSIVE InsertNewestFirst(_, _)
InsertNewestFirst(s, r) ==
    IF s = << >> THEN << r >>
    ELSE IF DateOf(Head(s).created_at) - DateOf(r.created_at) >= 0
         THEN << Head(s) >> \o InsertNewestFirst(Tail(s), r)
         ELSE << r >> \o s

RECURSIVE SortLoop(_, _)
SortLoop(acc, s) ==
    IF s = << >> THEN acc ELSE SortLoop(InsertNewestFirst(acc, Head(s)), Tail(s))

\* rows.sort((a, b) => new Date(b.created_at) - new Date(a.created_at))
SortNewestFirst(s) == SortLoop(<< >>, s)

\* an aggregation step that keeps the last amount instead of accumulating
AddGuardedLast(t, row) == Put(t, row.incentive_id, OrElse(row.amount, Num(0)))

\* sums[id] = (sums[id] || 0) + (row.amount || 0), for one row
AddGuarded(t, row) ==
    Put(t, row.incentive_id,
        Plus(OrElse(Lookup(t, row.incentive_id), Num(0)), OrElse(row.amount, Num(0))))

\* t[id] = (t[id] || 0) + row.amount, for one row
AddRaw(t, row) ==
    Put(t, row.incentive_id,
        Plus(OrElse(Lookup(t, row.incentive_id), Num(0)), row.amount))

RECURSIVE TotalsLoop(_, _)
TotalsLoop(acc, rows) ==
    IF rows = << >> THEN acc ELSE TotalsLoop(AddGuarded(acc, Head(rows)), Tail(rows))

\* loadData: the totalsMap the rows of the contributions read fold into
TotalsMap(rows) == TotalsLoop(EmptyMap, rows)

RECURSIVE GroupLoop(_, _)
GroupLoop(acc, rows) ==
    IF rows = << >> THEN acc
    ELSE GroupLoop(Put(acc, Head(rows).incentive_id,
                       Append(LogOf(acc, Head(rows).incentive_id), Head(rows))),
                   Tail(rows))

\* recomputeFromContribs: sums
RecomputeSums(rows) == TotalsLoop(EmptyMap, rows)

\* recomputeFromContribs: grouped, each log sorted newest first
RecomputeGrouped(rows) ==
    LET grouped == GroupLoop(EmptyMap, rows)
    IN  [id \in DOMAIN grouped |-> SortNewestFirst(grouped[id])]

RECURSIVE UpdateTotalsLoop(_, _)
UpdateTotalsLoop(acc, rows) ==
    IF rows = << >> THEN acc ELSE UpdateTotalsLoop(AddRaw(acc, Head(rows)), Tail(rows))

\* updateFromContributions: the setTotals updater
UpdateTotals(prev, rows) == UpdateTotalsLoop(prev, rows)

RECURSIVE UpdateLogsLoop(_, _, _)
UpdateLogsLoop(acc, rows, append) ==
    IF rows = << >> THEN acc
    ELSE LET c == Head(rows)
             old == LogOf(acc, c.incentive_id)
         IN  UpdateLogsLoop(
                 Put(acc, c.incentive_id,
                     IF append THEN << c >> \o old ELSE Append(old, c)),
                 Tail(rows), append)

\* updateFromContributions: the setLogs updater
UpdateLogs(prev, rows, append) == UpdateLogsLoop(prev, rows, append)

\* the rows of one incentive
RowsOf(rows, id) == SelectSeq(rows, LAMBDA c : c.incentive_id = id)

\* rows.filter((c) => c.id !== id)
WithoutId(rows, id) == SelectSeq(rows, LAMBDA c : c.id # id)

\* the list a card of IncentiveDashboard.jsx shows
CardList(rows, id) ==
    LET sorted == SortNewestFirst(RowsOf(rows, id))
    IN  SubSeq(sorted, 1, IF Len(sorted) < 6 THEN Len(sorted) ELSE 6)

\* ------------------------------------------------------------ the store
\* the notes typed into a note field ("null": none)
Notes == {"null"}

Ids(incs) == {incs[n].id : n \in 1..Len(incs)}

\* the row the store commits for an insert of {incentive_id, amount, note}
StoredRow(id, amount, note) ==
    [id |-> <<"srv", Len(dbContribs) + 1>>, incentive_id |-> id, amount |-> amount,
     note |-> note, created_at |-> now]

\* the store commits a row and notifies the client when its channel is joined
Commit(row) ==
    /\ dbContribs' = Append(dbContribs, row)
    /\ channel' = IF subPc = "joined" THEN channel \cup {row} ELSE channel

\* the clock advances
Tick ==
    /\ now < MaxClock
    /\ now' = now + 1
    /\ UNCHANGED << variant, live, store, loadPc, reply, clientData, loading,
                    error, alerted, incChannel, filled, consoleErr, writes, nsub, nother, storage >>

\* another client inserts a contribution
ExternalInsert ==
    /\ live
    /\ nsub + nother < MaxEvents
    /\ nother' = nother + 1
    /\ \E id \in Ids(dbIncentives), amount \in ExtAmounts :
           Commit(StoredRow(id, amount, "null"))
    /\ UNCHANGED << variant, live, dbIncentives, subPc, now, loadPc, reply,
                    clientData, loading, error, alerted, incChannel, filled, consoleErr, writes, nsub, storage >>

\* a contribution is deleted from the store; the subscriptions ask for the
\* event "INSERT" only, so no notification of it reaches a handler
ExternalDelete ==
    /\ live
    /\ \E k \in 1..Len(dbContribs) :
           dbContribs' = SubSeq(dbContribs, 1, k - 1)
                         \o SubSeq(dbContribs, k + 1, Len(dbContribs))
    /\ UNCHANGED << variant, live, dbIncentives, channel, subPc, now, loadPc, reply,
                    clientData, loading, error, alerted, incChannel, filled, consoleErr,
                    writes, nsub, nother, storage >>

\* another client inserts a contribution that has no amount
ExternalInsertBlank ==
    /\ live
    /\ Len(dbContribs) < MaxLen
    /\ nother' = nother + 1
    /\ \E id \in Ids(dbIncentives) : Commit(StoredRow(id, Undefined, "null"))
    /\ UNCHANGED << variant, live, dbIncentives, subPc, now, loadPc, reply,
                    clientData, loading, error, alerted, incChannel, filled, consoleErr, writes, nsub, storage >>

\* the store registers the client's subscription
ChannelJoined ==
    /\ subPc = "joining"
    /\ subPc' = "joined"
    /\ UNCHANGED << variant, live, dbIncentives, dbContribs, channel, now, loadPc,
                    reply, clientData, loading, error, alerted, incChannel, filled, consoleErr, writes, nsub, nother,
                    storage >>

\* ------------------------------------------------------------ initial load
\* JSON.parse(JSON.stringify(x)) of a number
JsonNumber(x) == IF IsNum(x) THEN x ELSE Null

\* JSON.parse(JSON.stringify(t)) of a map of numbers
JsonMap(t) == [id \in DOMAIN t |-> JsonNumber(t[id])]

\* JSON.parse(JSON.stringify(rows)) of a list of contributions
JsonRows(rows) ==
    [n \in 1..Len(rows) |-> [rows[n] EXCEPT !.amount = JsonNumber(rows[n].amount)]]

\* the effects run at mount: the load up to its first await, and the subscription
Mount ==
    /\ loadPc = "mount"
    /\ error' = "null"
    /\ IF live
       THEN /\ loadPc' = "incs"
            /\ subPc' = IF variant = "p2" THEN "none" ELSE "joining"
            /\ loading' = (variant # "p2")
            /\ UNCHANGED clientData
       ELSE /\ loadPc' = "done"
            /\ subPc' = "none"
            /\ loading' = FALSE
            /\ incentives' =
                   IF variant = "p1"
                   THEN (IF storage.has_incentives THEN storage.demo_incentives
                         ELSE DemoIncentivesP1)
                   ELSE DemoIncentives
            /\ totals' = IF variant = "p0" THEN EmptyMap ELSE storage.demo_totals
            /\ logs' = EmptyMap
            /\ contribs' = IF variant = "jsx" THEN storage.demo_contribs ELSE << >>
    /\ UNCHANGED << variant, live, dbIncentives, dbContribs, channel, now, reply,
                    alerted, incChannel, filled, consoleErr, writes, nsub, nother, storage >>

\* the page is reloaded in demo mode: the component is constructed anew and its
\* load runs again, over what localStorage holds
Reload ==
    /\ ~ live
    /\ loadPc = "done"
    /\ error' = "null"
    /\ loading' = FALSE
    /\ incentives' =
           IF variant = "p1"
           THEN (IF storage.has_incentives THEN storage.demo_incentives
                 ELSE DemoIncentivesP1)
           ELSE DemoIncentives
    /\ totals' = IF variant = "p0" THEN EmptyMap ELSE storage.demo_totals
    /\ logs' = EmptyMap
    /\ contribs' = IF variant = "jsx" THEN storage.demo_contribs ELSE << >>
    /\ UNCHANGED << variant, live, store, now, loadPc, reply, alerted, incChannel, filled, consoleErr, writes, nsub,
                    nother, storage >>

\* the incentives read returns its rows
LoadIncentives ==
    /\ loadPc = "incs"
    /\ incentives' = dbIncentives
    /\ loadPc' = "contribs"
    /\ UNCHANGED << variant, live, store, now, reply, totals, logs, contribs,
                    loading, error, alerted, incChannel, filled, consoleErr, writes, nsub, nother, storage >>

\* the incentives read fails: the load throws (part_002's second component
\* reads no error and goes on with an empty list)
LoadIncentivesFails ==
    /\ loadPc = "incs"
    /\ IF variant = "p2"
       THEN /\ incentives' = << >>
            /\ loadPc' = "contribs"
            /\ UNCHANGED << loading, error, consoleErr >>
       ELSE /\ loadPc' = "failed"
            /\ loading' = FALSE
            /\ error' = IF variant \in {"jsx", "p1"} THEN ReadError ELSE error
            /\ consoleErr' = IF variant = "p0" THEN ReadError ELSE consoleErr
            /\ UNCHANGED incentives
    /\ UNCHANGED << variant, live, store, now, reply, totals, logs, contribs,
                    alerted, incChannel, filled, writes, nsub, nother, storage >>

\* the store answers the contributions read with the rows it holds
ServeContributions ==
    /\ loadPc = "contribs"
    /\ reply = NoReply
    /\ reply' = Rows(IF variant = "p2" THEN SortNewestFirst(dbContribs)
                      ELSE dbContribs)
    /\ UNCHANGED << variant, live, store, now, loadPc, clientData, loading, error,
                    alerted, incChannel, filled, consoleErr, writes, nsub, nother, storage >>

\* the state the load leaves once the contributions read has returned data
LoadedTotals(rows) ==
    CASE variant = "p0" -> RecomputeSums(rows)
      [] variant = "p2" -> UpdateTotals(totals, rows)
      [] OTHER -> TotalsMap(rows)

LoadedLogs(rows) ==
    CASE variant = "p0" -> RecomputeGrouped(rows)
      [] variant = "p2" -> UpdateLogs(logs, rows, FALSE)
      [] OTHER -> logs

\* the contributions read returns: the rest of the load
LoadContributions ==
    /\ loadPc = "contribs"
    /\ reply # NoReply
    /\ loadPc' = "done"
    /\ reply' = NoReply
    /\ loading' = FALSE
    /\ totals' = LoadedTotals(reply.rows)
    /\ logs' = LoadedLogs(reply.rows)
    /\ contribs' = IF variant = "jsx" THEN reply.rows ELSE contribs
    /\ subPc' = IF variant = "p2" THEN "joining" ELSE subPc
    /\ UNCHANGED << variant, live, dbIncentives, dbContribs, channel, now,
                    incentives, error, alerted, incChannel, filled, consoleErr, writes, nsub, nother, storage >>

\* a load without its finally block: a failed contributions read leaves the
\* loading flag as it was
LoadContributionsFailsStuck ==
    /\ loadPc = "contribs"
    /\ reply = NoReply
    /\ loadPc' = IF variant = "p2" THEN "done" ELSE "failed"
    /\ loading' = loading
    /\ totals' = IF variant = "p2" THEN UpdateTotals(totals, << >>) ELSE totals
    /\ logs' = IF variant = "p2" THEN UpdateLogs(logs, << >>, FALSE) ELSE logs
    /\ error' = IF variant \in {"jsx", "p1"} THEN ReadError ELSE error
    /\ consoleErr' = IF variant = "p0" THEN ReadError ELSE consoleErr
    /\ subPc' = IF variant = "p2" THEN "joining" ELSE subPc
    /\ UNCHANGED << variant, live, dbIncentives, dbContribs, channel, now, reply,
                    incentives, contribs, alerted, incChannel, filled, writes, nsub, nother, storage >>

\* the contributions read fails: the load throws (part_002's second component
\* reads no error and goes on with an empty list)
LoadContributionsFails ==
    /\ loadPc = "contribs"
    /\ reply = NoReply
    /\ loadPc' = IF variant = "p2" THEN "done" ELSE "failed"
    /\ loading' = FALSE
    /\ totals' = IF variant = "p2" THEN UpdateTotals(totals, << >>) ELSE totals
    /\ logs' = IF variant = "p2" THEN UpdateLogs(logs, << >>, FALSE) ELSE logs
    /\ error' = IF variant \in {"jsx", "p1"} THEN ReadError ELSE error
    /\ consoleErr' = IF variant = "p0" THEN ReadError ELSE consoleErr
    /\ subPc' = IF variant = "p2" THEN "joining" ELSE subPc
    /\ UNCHANGED << variant, live, dbIncentives, dbContribs, channel, now, reply,
                    incentives, contribs, alerted, incChannel, filled, writes, nsub, nother, storage >>

\* the aggregation of the load is called once more, with the list the store
\* holds, on the state the load has left
Recompute ==
    /\ loadPc = "done"
    /\ loadPc' = "again"
    /\ LET rows == IF variant = "p2" THEN SortNewestFirst(dbContribs) ELSE dbContribs
       IN  /\ totals' = LoadedTotals(rows)
           /\ logs' = LoadedLogs(rows)
           /\ contribs' = IF variant = "jsx" THEN rows ELSE contribs
    /\ UNCHANGED << variant, live, store, now, reply, incentives, loading, error,
                    alerted, incChannel, filled, consoleErr, writes, nsub, nother, storage >>

\* ------------------------------------------------------------ realtime
\* a handler that leaves the notified amount out of totals
OnInsertTotalsSkipped(t, row) == t

\* the contributions-INSERT handler: totals
OnInsertTotals(t, row) ==
    CASE variant = "p0" -> AddRaw(t, row)
      [] variant = "p2" -> UpdateTotals(t, << row >>)
      [] OTHER -> AddGuarded(t, row)

\* a handler that puts the notified row at the end of the log
OnInsertLogsAtEnd(lg, row) ==
    IF variant \in {"p0", "p2"}
    THEN Put(lg, row.incentive_id, Append(LogOf(lg, row.incentive_id), row))
    ELSE lg

\* the contributions-INSERT handler: logs (part_000, part_002)
OnInsertLogs(lg, row) ==
    CASE variant = "p0" ->
             Put(lg, row.incentive_id, << row >> \o LogOf(lg, row.incentive_id))
      [] variant = "p2" -> UpdateLogs(lg, << row >>, TRUE)
      [] OTHER -> lg

\* the contributions-INSERT handler: contribs (IncentiveDashboard.jsx)
OnInsertContribs(prev, row) ==
    IF variant = "jsx" THEN << row >> \o prev ELSE prev

\* a notification is delivered, in any order
Notify ==
    /\ \E row \in channel :
           /\ channel' = channel \ {row}
           /\ totals' = OnInsertTotals(totals, row)
           /\ logs' = OnInsertLogs(logs, row)
           /\ contribs' = OnInsertContribs(contribs, row)
    /\ UNCHANGED << variant, live, dbIncentives, dbContribs, subPc, now, loadPc,
                    reply, incentives, loading, error, alerted, incChannel, filled, consoleErr, writes, nsub, nother,
                    storage >>

\* ------------------------------------------------------------ submit
\* an activity tier that takes in every incentive
ActivityIncsAll(incs) == incs

\* incentives.filter((i) => TIER1_NAMES.includes(i.name))
ActivityIncs(incs) == SelectSeq(incs, LAMBDA i : i.name \in TIER1_NAMES)

\* incentives.find((i) => i.name === SALES_TIER2_NAME), as a list of 0 or 1
Sales2(incs) ==
    LET found == SelectSeq(incs, LAMBDA i : i.name = SALES_TIER2_NAME)
    IN  IF found = << >> THEN << >> ELSE << Head(found) >>

\* cards that are on display while the load is in flight too
CardsUngated ==
    IF variant \in {"p0", "p2"}
    THEN ActivityIncs(incentives) \o (IF variant = "p0" THEN Sales2(incentives) ELSE << >>)
    ELSE incentives

\* the incentives that have a card with an amount field and buttons
Cards ==
    CASE variant = "p0" ->
             IF loading THEN << >> ELSE ActivityIncs(incentives) \o Sales2(incentives)
      [] variant = "p2" -> ActivityIncs(incentives)
      [] OTHER -> IF loading THEN << >> ELSE incentives

\* the buttons a card has: Add (FALSE) and, but in part_001, Deduct (TRUE)
Buttons == IF variant = "p1" THEN {FALSE} ELSE BOOLEAN

\* the amount a click hands to the handler
ClickDelta(raw, isDeduct) ==
    CASE variant = "p0" ->
             LET val == ToNumber(raw)
             IN  IF isDeduct THEN Neg(MathAbs(val)) ELSE MathAbs(val)
      [] variant = "jsx" ->
             LET parsed == ToNumber(OrElse(raw, Str("")))
             IN  IF IsFinite(parsed)
                 THEN (IF isDeduct THEN Neg(MathAbs(parsed)) ELSE MathAbs(parsed))
                 ELSE NaN
      [] variant = "p1" -> ToNumber(raw)
      [] OTHER -> IF isDeduct THEN Neg(MathAbs(ParseInt(raw))) ELSE ParseInt(raw)

\* a handler without validation
AcceptedAny(raw, delta) == TRUE

\* whether the handler goes on with that amount
Accepted(raw, delta) ==
    CASE variant = "p0" -> IsFinite(ToNumber(raw)) /\ ToNumber(raw) # Num(0)
      [] variant = "jsx" -> IsFinite(delta) /\ delta # Num(0)
      [] variant = "p1" -> IsFinite(delta) /\ Gt(delta, Num(0))
      [] OTHER -> Truthy(delta)

\* the message an amount that is not accepted leaves in the error state
RejectMessage ==
    CASE variant = "jsx" -> "Please enter a non-zero number."
      [] variant = "p1" -> "Please enter a positive number."
      [] OTHER -> error

\* the placeholder of an optimistic submit
Placeholder(id, delta, note) ==
    [id |-> <<"local", now>>, incentive_id |-> id, amount |-> delta, note |-> note,
     created_at |-> now]

\* a submit that leaves totals alone until the insert returns
OptimisticTotalsDeferred(t, id, delta) == t

\* the optimistic update of totals
OptimisticTotals(t, id, delta) ==
    IF variant \in Optimistic
    THEN Put(t, id, Plus(OrElse(Lookup(t, id), Num(0)), delta))
    ELSE t

\* an optimistic update that puts the placeholder at the end of the log
OptimisticLogsAtEnd(lg, temp) ==
    IF variant = "p0"
    THEN Put(lg, temp.incentive_id, Append(LogOf(lg, temp.incentive_id), temp))
    ELSE lg

\* the optimistic update of logs (part_000)
OptimisticLogs(lg, temp) ==
    IF variant = "p0"
    THEN Put(lg, temp.incentive_id, << temp >> \o LogOf(lg, temp.incentive_id))
    ELSE lg

\* the optimistic update of contribs (IncentiveDashboard.jsx)
OptimisticContribs(prev, temp) ==
    IF variant = "jsx" THEN << temp >> \o prev ELSE prev

\* what a demo-mode submit leaves in localStorage
DemoStorage(st, temp) ==
    CASE variant = "jsx" ->
             [st EXCEPT
                 !.demo_totals =
                     JsonMap(Put(st.demo_totals, temp.incentive_id,
                                 Plus(OrElse(Lookup(st.demo_totals, temp.incentive_id),
                                             Num(0)),
                                      temp.amount))),
                 !.demo_contribs = JsonRows(<< temp >> \o st.demo_contribs)]
      [] variant = "p1" ->
             [st EXCEPT
                 !.demo_totals =
                     JsonMap(Put(st.demo_totals, temp.incentive_id,
                                 Plus(OrElse(Lookup(st.demo_totals, temp.incentive_id),
                                             Num(0)),
                                      temp.amount)))]
      [] OTHER -> st

\* an insert that sends the size of the amount without its sign
NewWriteAbs(temp) ==
    [inc |-> temp.incentive_id, amount |-> MathAbs(temp.amount), note |-> temp.note,
     tempId |-> temp.id, status |-> "sent", data |-> NoRow]

\* the insert a submit issues
NewWrite(temp) ==
    [inc |-> temp.incentive_id, amount |-> temp.amount, note |-> temp.note,
     tempId |-> temp.id, status |-> "sent", data |-> NoRow]

\* a click on the Add (isDeduct = FALSE) or Deduct button of the n-th card, with
\* raw in its amount field and note in its note field: the handler up to its await
SubmitWith(n, raw, isDeduct, note) ==
    LET inc == Cards[n]
        delta == ClickDelta(raw, isDeduct)
        temp == Placeholder(inc.id, delta, note)
    IN  /\ IF Accepted(raw, delta)
           THEN /\ nsub + nother < MaxEvents
                /\ nsub' = nsub + 1
                /\ totals' = OptimisticTotals(totals, inc.id, delta)
                /\ logs' = OptimisticLogs(logs, temp)
                /\ contribs' = OptimisticContribs(contribs, temp)
                /\ IF live
                   THEN /\ writes' = Put(writes, nsub + 1, NewWrite(temp))
                        /\ UNCHANGED storage
                   ELSE /\ storage' = DemoStorage(storage, temp)
                        /\ UNCHANGED writes
                /\ filled' = IF variant = "p2" THEN filled \cup {inc.id} ELSE filled
                /\ UNCHANGED error
           ELSE /\ error' = RejectMessage
                /\ UNCHANGED << totals, logs, contribs, writes, nsub, storage,
                                filled >>
        /\ UNCHANGED << variant, live, store, now, loadPc, reply, incentives,
                        loading, alerted, incChannel, consoleErr, nother >>

\* a click on a button of some card
Submit ==
    \E n \in 1..Len(Cards), raw \in RawInputs, isDeduct \in Buttons, note \in Notes :
        SubmitWith(n, raw, isDeduct, note)

\* the store commits the insert of a submit
ServeInsert ==
    /\ \E w \in DOMAIN writes :
           /\ writes[w].status = "sent"
           /\ LET row == StoredRow(writes[w].inc, writes[w].amount, writes[w].note)
              IN  /\ Commit(row)
                  /\ writes' = [writes EXCEPT ![w].status = "ok", ![w].data = row]
    /\ UNCHANGED << variant, live, dbIncentives, subPc, now, loadPc, reply,
                    clientData, loading, error, alerted, incChannel, filled, consoleErr, nsub, nother, storage >>

\* a failure handler that keeps the optimistic amount in totals
RollbackTotalsKept(t, id, delta) == t

\* the rollback of totals
RollbackTotals(t, id, delta) ==
    IF variant \in Optimistic
    THEN Put(t, id, Minus(OrElse(Lookup(t, id), Num(0)), delta))
    ELSE t

\* a rollback that leaves the placeholder in the log
RollbackLogsKept(lg, id, tempId) == lg

\* the rollback of logs (part_000)
RollbackLogs(lg, id, tempId) ==
    IF variant = "p0" THEN Put(lg, id, WithoutId(LogOf(lg, id), tempId)) ELSE lg

\* the rollback of contribs (IncentiveDashboard.jsx)
RollbackContribs(prev, tempId) ==
    IF variant = "jsx" THEN WithoutId(prev, tempId) ELSE prev

\* a confirmation that keeps the placeholder under the stored row
ConfirmContribsKept(prev, tempId, data) ==
    IF variant = "jsx" THEN << data >> \o prev ELSE prev

\* the stored row takes the place of the placeholder (IncentiveDashboard.jsx)
ConfirmContribs(prev, tempId, data) ==
    IF variant = "jsx" THEN << data >> \o WithoutId(prev, tempId) ELSE prev

\* the rest of map m without key w
Without(m, w) == [x \in DOMAIN m \ {w} |-> m[x]]

\* the insert returns the stored row: the handler after its await
InsertReturns ==
    /\ \E w \in DOMAIN writes :
           /\ writes[w].status = "ok"
           /\ writes' = Without(writes, w)
           /\ contribs' = ConfirmContribs(contribs, writes[w].tempId, writes[w].data)
           /\ filled' = IF variant = "p2" THEN filled \ {writes[w].inc} ELSE filled
    /\ UNCHANGED << variant, live, store, now, loadPc, reply, incentives, totals,
                    logs, loading, error, alerted, incChannel, consoleErr, nsub,
                    nother, storage >>

\* the store rejects the insert: the handler after its await, with an error
InsertFails ==
    /\ \E w \in DOMAIN writes :
           /\ writes[w].status = "sent"
           /\ writes' = Without(writes, w)
           /\ totals' = RollbackTotals(totals, writes[w].inc, writes[w].amount)
           /\ logs' = RollbackLogs(logs, writes[w].inc, writes[w].tempId)
           /\ contribs' = RollbackContribs(contribs, writes[w].tempId)
           /\ filled' = IF variant = "p2" THEN filled \ {writes[w].inc} ELSE filled
    /\ error' = IF variant \in {"jsx", "p1"} THEN InsertError ELSE error
    /\ alerted' = IF variant = "p0" THEN InsertError ELSE alerted
    /\ UNCHANGED << variant, live, store, now, loadPc, reply, incentives, loading,
                    consoleErr, incChannel, nsub, nother, storage >>

\* ------------------------------------------------------------ new incentive
\* what is typed into the name field of the new-incentive form
NewNames == {"", "  ", " Bonus ", "Bonus"}

\* a name taken as typed
TrimNone(s) == s

\* newName.trim()
Trim(s) ==
    CASE s = "  " -> ""
      [] s = " Bonus " -> "Bonus"
      [] OTHER -> s

\* handleAddIncentive (part_001, first component of part_002) with rawName in the
\* name field and rawTarget in the target field; in live mode together with the
\* outcome of its insert
AddIncentiveWith(rawName, rawTarget) ==
    LET \* String(Date.now()); the clock reads far beyond the seeded ids "1", "2", "3"
        StringOfDateNow == "t" \o ToString(now)
        \* the id the store assigns to a new incentive
        StoredIncentiveId == "n" \o ToString(Len(dbIncentives) + 1)
        name == Trim(rawName)
        targetNum == ToNumber(rawTarget)
        demoIncentives ==
            IF storage.has_incentives THEN storage.demo_incentives ELSE << >>
        newInc == [id |-> StringOfDateNow, name |-> name, target |-> targetNum]
        updated == Append(demoIncentives, newInc)
        row == [id |-> StoredIncentiveId, name |-> name, target |-> targetNum]
    IN  /\ variant = "p1"
        /\ IF name = ""
           THEN /\ error' = "Please enter a name for the incentive."
                /\ UNCHANGED << incentives, storage, dbIncentives, incChannel >>
           ELSE IF ~ IsFinite(targetNum) \/ Leq(targetNum, Num(0))
           THEN /\ error' = "Target must be a positive number."
                /\ UNCHANGED << incentives, storage, dbIncentives, incChannel >>
           ELSE IF ~ live
           THEN /\ Len(demoIncentives) < MaxLen
                /\ storage' = [storage EXCEPT !.demo_incentives = updated,
                                              !.has_incentives = TRUE]
                /\ incentives' = updated
                /\ error' = "null"
                /\ UNCHANGED << dbIncentives, incChannel >>
           ELSE \/ /\ Len(dbIncentives) < MaxLen + 1
                   /\ dbIncentives' = Append(dbIncentives, row)
                   /\ incChannel' = IF subPc = "joined" THEN incChannel \cup {row}
                                    ELSE incChannel
                   /\ error' = "null"
                   /\ UNCHANGED << incentives, storage >>
                \/ /\ error' = InsertError
                   /\ UNCHANGED << incentives, storage, dbIncentives, incChannel >>
        /\ UNCHANGED << variant, live, dbContribs, channel, subPc, now, loadPc,
                        reply, totals, logs, contribs, loading, alerted, consoleErr,
                        filled, writes, nsub, nother >>

\* a click on "Add incentive"
AddIncentive ==
    \E rawName \in NewNames, rawTarget \in RawInputs \ {Undefined} :
        AddIncentiveWith(rawName, rawTarget)

\* the incentives-INSERT handler: setIncentives((list) => [...list, row])
NotifyIncentive ==
    /\ \E row \in incChannel :
           /\ incChannel' = incChannel \ {row}
           /\ incentives' = Append(incentives, row)
    /\ UNCHANGED << variant, live, store, now, loadPc, reply, totals, logs,
                    contribs, loading, error, alerted, consoleErr, filled, writes,
                    nsub, nother, storage >>

\* ------------------------------------------------------------ tier summaries
\* incs.reduce((acc, i) => acc + (Number(i.target) || 0), 0)
RECURSIVE ReduceTargets(_, _)
ReduceTargets(acc, incs) ==
    IF incs = << >> THEN acc
    ELSE ReduceTargets(Plus(acc, OrElse(ToNumber(Head(incs).target), Num(0))),
                       Tail(incs))

\* incs.reduce((acc, i) => acc + (Number(totals[i.id]) || 0), 0)
RECURSIVE ReduceTotals(_, _)
ReduceTotals(acc, incs) ==
    IF incs = << >> THEN acc
    ELSE ReduceTotals(Plus(acc, OrElse(ToNumber(Lookup(totals, Head(incs).id)), Num(0))),
                      Tail(incs))

\* IncentiveDashboard.jsx: Tier 1 (activity)
tier1Incs == ActivityIncs(incentives)
tier1Target == ReduceTargets(Num(0), tier1Incs)
tier1Achieved == ReduceTotals(Num(0), tier1Incs)
tier1Pct ==
    IF Gt(tier1Target, Num(0)) THEN MathMin(Div(tier1Achieved, tier1Target), Num(1))
    ELSE Num(0)

\* IncentiveDashboard.jsx: Tier 2 (sales), the incentive of that name
sales2 == Sales2(incentives)
\* a Tier 2 that always shows the default target
sales2TargetDefault == Num(SALES_TIER2_TARGET)
sales2Target ==
    IF sales2 = << >> THEN Num(SALES_TIER2_TARGET)
    ELSE Nullish(sales2[1].target, Num(SALES_TIER2_TARGET))
sales2Achieved ==
    IF sales2 = << >> THEN Num(0)
    ELSE OrElse(ToNumber(Lookup(totals, sales2[1].id)), Num(0))
sales2Pct ==
    IF Gt(sales2Target, Num(0)) THEN MathMin(Div(sales2Achieved, sales2Target), Num(1))
    ELSE Num(0)

\* IncentiveDashboard.jsx: Tier 3 (sales)
sales3Target == Num(SALES_TIER3_TARGET)
\* a Tier 3 with data of its own: the total of the incentive of that name
sales3AchievedOwn ==
    LET own == SelectSeq(incentives, LAMBDA i : i.name = "Sales Incentive - Tier 3")
    IN  IF own = << >> THEN Num(0)
        ELSE OrElse(ToNumber(Lookup(totals, own[1].id)), Num(0))
sales3Achieved == sales2Achieved
sales3Pct ==
    IF Gt(sales3Target, Num(0)) THEN MathMin(Div(sales3Achieved, sales3Target), Num(1))
    ELSE Num(0)

\* IncentiveDashboard.jsx: the "remaining" line of a summary card
Remaining(target, achieved) == MathMax(Minus(target, achieved), Num(0))

\* part_000: the derived tier values
activityIncs == ActivityIncs(incentives)
P0_tier1Target == ReduceTargets(Num(0), activityIncs)
tier1Total == ReduceTotals(Num(0), activityIncs)
P0_sales2 == Sales2(incentives)
P0_sales2Target ==
    IF P0_sales2 = << >> THEN Num(100000) ELSE Nullish(P0_sales2[1].target, Num(100000))
sales2Total ==
    IF P0_sales2 = << >> THEN Num(0)
    ELSE OrElse(Lookup(totals, P0_sales2[1].id), Num(0))
P0_sales3Target == Num(SALES_TIER3_TARGET)
sales3Total == sales2Total

\* part_000 SummaryCard: pct, and the "remaining" line
SummaryCardPct(total, target) ==
    IF Gt(target, Num(0)) THEN MathMin(Num(100), Times(Div(total, target), Num(100)))
    ELSE Num(0)
SummaryCardRemaining(total, target) == MathMax(Minus(target, total), Num(0))

\* part_002 (second component): activityMetrics.reduce((a, b) => a + b.target, 0)
RECURSIVE ReduceRawTargets(_, _)
ReduceRawTargets(acc, incs) ==
    IF incs = << >> THEN acc
    ELSE ReduceRawTargets(Plus(acc, Head(incs).target), Tail(incs))

\* part_002 (second component):
\* activityMetrics.reduce((a, b) => a + (totals[b.id] || 0), 0)
RECURSIVE ReduceRawTotals(_, _)
ReduceRawTotals(acc, incs) ==
    IF incs = << >> THEN acc
    ELSE ReduceRawTotals(Plus(acc, OrElse(Lookup(totals, Head(incs).id), Num(0))),
                         Tail(incs))

\* part_002 (second component): the derived tier values
activityMetrics == ActivityIncs(incentives)
salesTier2 == Sales2(incentives)
salesTier3 == Inc("tier3", "Sales Incentive - Tier 3", 150000)
totalActivityTarget == ReduceRawTargets(Num(0), activityMetrics)
totalActivityValue == ReduceRawTotals(Num(0), activityMetrics)
tier2Value ==
    IF salesTier2 = << >> THEN Num(0)
    ELSE OrElse(Lookup(totals, salesTier2[1].id), Num(0))
tier3Value == tier2Value

\* part_002 (second component): the percent a summary card hands to its Donut
DonutPercent(value, target) == Times(Div(value, target), Num(100))

\* the three summaries of the running variant: what each one shows as achieved
\* and target, the percent it hands to its Donut as a fraction of the whole, and
\* its "remaining" line (part_002 shows none)
Tiers == {"tier1", "sales2", "sales3"}

\* whether the running variant renders the summary card of a tier
Shown(tier) == variant \in Tiered /\ (variant = "p2" /\ tier = "sales2" => salesTier2 # << >>)

Achieved(tier) ==
    CASE variant = "p0" ->
             (CASE tier = "tier1" -> tier1Total
                [] tier = "sales2" -> sales2Total
                [] OTHER -> sales3Total)
      [] variant = "p2" ->
             (CASE tier = "tier1" -> totalActivityValue
                [] tier = "sales2" -> tier2Value
                [] OTHER -> tier3Value)
      [] OTHER ->
             (CASE tier = "tier1" -> tier1Achieved
                [] tier = "sales2" -> sales2Achieved
                [] OTHER -> sales3Achieved)

Target(tier) ==
    CASE variant = "p0" ->
             (CASE tier = "tier1" -> P0_tier1Target
                [] tier = "sales2" -> P0_sales2Target
                [] OTHER -> P0_sales3Target)
      [] variant = "p2" ->
             (CASE tier = "tier1" -> totalActivityTarget
                [] tier = "sales2" ->
                       (IF salesTier2 = << >> THEN Undefined ELSE salesTier2[1].target)
                [] OTHER -> salesTier3.target)
      [] OTHER ->
             (CASE tier = "tier1" -> tier1Target
                [] tier = "sales2" -> sales2Target
                [] OTHER -> sales3Target)

Percent(tier) ==
    CASE variant = "p0" -> Div(SummaryCardPct(Achieved(tier), Target(tier)), Num(100))
      [] variant = "p2" -> Div(DonutPercent(Achieved(tier), Target(tier)), Num(100))
      [] OTHER ->
             (CASE tier = "tier1" -> tier1Pct
                [] tier = "sales2" -> sales2Pct
                [] OTHER -> sales3Pct)

RemainingShown(tier) ==
    CASE variant = "p0" -> SummaryCardRemaining(Achieved(tier), Target(tier))
      [] variant = "p2" -> Undefined
      [] OTHER -> Remaining(Target(tier), Achieved(tier))

\* ------------------------------------------------------------ specification
Next ==
    \/ Tick
    \/ ExternalInsert
    \/ ChannelJoined
    \/ Mount
    \/ LoadIncentives
    \/ LoadIncentivesFails
    \/ ServeContributions
    \/ LoadContributions
    \/ LoadContributionsFails
    \/ Notify
    \/ Submit
    \/ ServeInsert
    \/ InsertReturns
    \/ InsertFails

Spec == Init /\ [][Next]_vars

\* ------------------------------------------------------------ aggregation alone
\* the load-time aggregation run on every list of up to MaxLen contribution
\* records: the contributions read of a store that holds that list returns
AggIds == {"a1", "zz"}
AggAmounts == {Num(4), Num(-4)}
AggKinds == AggIds \X AggAmounts \X (0..MaxClock)
AggLists == UNION {[1..len -> AggKinds] : len \in 0..MaxLen}

AggRows(f) ==
    [k \in 1..Len(f) |->
        [id |-> <<"srv", k>>, incentive_id |-> f[k][1], amount |-> f[k][2],
         note |-> "null", created_at |-> f[k][3]]]

InitAgg ==
    /\ variant \in Variants
    /\ live = TRUE
    /\ dbIncentives = << Inc("a1", "Client Meetings", 10), Inc("a2", "New Jobs", 20),
                         Inc("s2", SALES_TIER2_NAME, 4) >>
    /\ dbContribs \in {AggRows(f) : f \in AggLists}
    /\ channel = {}
    /\ subPc = IF variant = "p2" THEN "none" ELSE "joined"
    /\ now = MaxClock
    /\ loadPc = "contribs"
    /\ reply = Rows(IF variant = "p2" THEN SortNewestFirst(dbContribs) ELSE dbContribs)
    /\ incentives = dbIncentives
    /\ totals = EmptyMap
    /\ logs = EmptyMap
    /\ contribs = << >>
    /\ loading = (variant # "p2")
    /\ error = "null"
    /\ alerted = "null"
    /\ consoleErr = "null"
    /\ incChannel = {}
    /\ filled = {}
    /\ writes = EmptyMap
    /\ nsub = 0
    /\ nother = Len(dbContribs)
    /\ storage = EmptyStorage

NextAgg == LoadContributions

SpecAgg == InitAgg /\ [][NextAgg]_vars


\* the folds on records that may lack an amount: the load-time aggregation of
\* every list of up to MaxLen such records, then the notifications of further
\* rows without amount
FoldAmounts == {Num(4), Null, Undefined}
FoldKinds == AggIds \X FoldAmounts \X (0..MaxClock)
FoldLists == UNION {[1..len -> FoldKinds] : len \in 0..MaxLen}

InitFold ==
    /\ variant \in Variants
    /\ live = TRUE
    /\ dbIncentives = << Inc("a1", "Client Meetings", 10), Inc("a2", "New Jobs", 20),
                         Inc("s2", SALES_TIER2_NAME, 4) >>
    /\ dbContribs \in {AggRows(f) : f \in FoldLists}
    /\ channel = {}
    /\ subPc = IF variant = "p2" THEN "none" ELSE "joined"
    /\ now = MaxClock
    /\ loadPc = "contribs"
    /\ reply = Rows(IF variant = "p2" THEN SortNewestFirst(dbContribs) ELSE dbContribs)
    /\ incentives = dbIncentives
    /\ totals = EmptyMap
    /\ logs = EmptyMap
    /\ contribs = << >>
    /\ loading = (variant # "p2")
    /\ error = "null"
    /\ alerted = "null"
    /\ consoleErr = "null"
    /\ incChannel = {}
    /\ filled = {}
    /\ writes = EmptyMap
    /\ nsub = 0
    /\ nother = Len(dbContribs)
    /\ storage = EmptyStorage

NextFold ==
    \/ LoadContributions
    \/ ChannelJoined
    \/ ExternalInsertBlank
    \/ Notify

SpecFold == InitFold /\ [][NextFold]_vars

\* the load-time aggregation called twice on every list of up to MaxLen records
NextTwice ==
    \/ LoadContributions
    \/ Recompute

SpecTwice == InitAgg /\ [][NextTwice]_vars

\* the dashboard without a configured client, reloaded at any time
InitDemo == Init /\ ~ live
NextDemo == Tick \/ Mount \/ Submit \/ Reload
SpecDemo == InitDemo /\ [][NextDemo]_vars

\* the dashboard with the new-incentive form (part_001), in demo and live mode
InitInc == Init /\ variant = "p1"

NextInc ==
    \/ Tick
    \/ Mount
    \/ ChannelJoined
    \/ LoadIncentives
    \/ LoadIncentivesFails
    \/ ServeContributions
    \/ LoadContributions
    \/ LoadContributionsFails
    \/ Reload
    \/ AddIncentive
    \/ NotifyIncentive

SpecInc == InitInc /\ [][NextInc]_vars

\* an optimistic dashboard that is the only writer of the store, from the state
\* its load leaves on an empty contributions table with the channel joined
InitEcho ==
    /\ variant \in Optimistic
    /\ live = TRUE
    /\ dbIncentives \in StoreIncentives
    /\ dbContribs = << >>
    /\ channel = {}
    /\ subPc = "joined"
    /\ now = 0
    /\ loadPc = "done"
    /\ reply = NoReply
    /\ incentives = dbIncentives
    /\ totals = EmptyMap
    /\ logs = EmptyMap
    /\ contribs = << >>
    /\ loading = FALSE
    /\ error = "null"
    /\ alerted = "null"
    /\ consoleErr = "null"
    /\ incChannel = {}
    /\ filled = {}
    /\ writes = EmptyMap
    /\ nsub = 0
    /\ nother = 0
    /\ storage = EmptyStorage

NextEcho ==
    \/ Tick
    \/ Submit
    \/ ServeInsert
    \/ InsertReturns
    \/ InsertFails
    \/ Notify

SpecEcho == InitEcho /\ [][NextEcho]_vars

\* the loaded dashboard beside other clients that insert and delete contributions
NextDelete ==
    \/ Tick
    \/ ExternalInsert
    \/ Notify
    \/ ExternalDelete

SpecDelete == InitEcho /\ [][NextDelete]_vars

\* ------------------------------------------------------------ properties
\* the integer behind an entry of a map of numbers, a missing entry counting as 0
IntOf(t, id) == IF id \in DOMAIN t THEN t[id].n ELSE 0

\* every entry of t is an integer
AllInt(t) == \A id \in DOMAIN t : IsNum(t[id]) /\ t[id].d = 1

\* the arithmetic sum of amount over a list of records
RECURSIVE SumAmounts(_)
SumAmounts(rows) ==
    IF rows = << >> THEN 0 ELSE Head(rows).amount.n + SumAmounts(Tail(rows))

\* the arithmetic sum of the values of a map of numbers
RECURSIVE SumValues(_)
SumValues(t) ==
    IF DOMAIN t = {} THEN 0
    ELSE LET id == CHOOSE x \in DOMAIN t : TRUE
         IN  t[id].n + SumValues([x \in DOMAIN t \ {id} |-> t[x]])

\* the incentive ids a list of records mentions
IdsIn(rows) == {rows[k].incentive_id : k \in 1..Len(rows)}

\* the ids of the rows of a list
RowIds(rows) == {rows[k].id : k \in 1..Len(rows)}

\* a list of records is sorted non-increasing by created_at
NonIncreasing(rows) ==
    \A j, k \in 1..Len(rows) : j < k => rows[j].created_at >= rows[k].created_at

\* the amount fields that hold no number, nothing, or zero
InvalidInputs == {Undefined, Str(""), Str("abc"), Str("0")}

\* C1: in live mode, in the optimistic variants, once the load is over and no
\* write and no notification is pending, totals[i] is the sum of amount over the
\* contributions of incentive i held by the store; stated for the runs in which
\* this dashboard is the only writer of the store.
C1_TotalsEqualStoreSum ==
    (/\ variant \in Optimistic
     /\ live
     /\ loadPc = "done"
     /\ writes = EmptyMap
     /\ channel = {}
     /\ nother = 0)
    => /\ AllInt(totals)
       /\ \A i \in Ids(incentives) \cup DOMAIN totals :
              IntOf(totals, i) = SumAmounts(RowsOf(dbContribs, i))

\* C2: when the insert of a valid submit of delta d on incentive i fails, the
\* failure handler leaves totals[i] at its value without that submit (the value
\* before the handler less d), leaves no placeholder of that submit in i's log,
\* and surfaces the failure message (error state, or alert in part_000).
C2_FailedInsertRolledBack ==
    [][\A w \in DOMAIN writes :
           (/\ variant \in Optimistic
            /\ writes[w].status = "sent"
            /\ w \notin DOMAIN writes')
           => LET i == writes[w].inc
                  d == writes[w].amount.n
              IN  /\ AllInt(totals')
                  /\ i \in DOMAIN totals'
                  /\ IntOf(totals', i) = IntOf(totals, i) - d
                  /\ variant = "p0" => writes[w].tempId \notin RowIds(LogOf(logs', i))
                  /\ variant = "jsx" =>
                         writes[w].tempId \notin RowIds(CardList(contribs', i))
                  /\ IF variant = "p0" THEN alerted' = InsertError
                     ELSE error' = InsertError]_vars

\* a failed insert has been rolled back in part_000: the total is back at 0, the
\* log is empty again and the alert was raised
C2_Witness ==
    /\ variant = "p0"
    /\ nsub = 1
    /\ nother = 0
    /\ writes = EmptyMap
    /\ alerted = InsertError
    /\ "a1" \in DOMAIN totals
    /\ totals["a1"] = Num(0)
    /\ LogOf(logs, "a1") = << >>

C4_InvalidInputIgnored ==
    [][~ UNCHANGED << totals, logs, contribs, writes, nsub, dbContribs, channel,
                      storage >>
       => \A n \in 1..Len(Cards), raw \in InvalidInputs, isDeduct \in Buttons,
             note \in Notes :
              ~ SubmitWith(n, raw, isDeduct, note)]_vars

\* IncentiveDashboard.jsx has turned an amount down (its message is up) and the
\* total it had loaded is as it was, with no submit counted and no insert issued
C4_Witness ==
    /\ variant = "jsx"
    /\ live
    /\ error = "Please enter a non-zero number."
    /\ nsub = 0
    /\ writes = EmptyMap
    /\ contribs = dbContribs
    /\ Len(dbContribs) = 1
    /\ IntOf(totals, "a1") = 4

\* C5: for every list of contribution records, the aggregation of the load gives
\* totals[id] = the arithmetic sum of amount over the records of id, for every id
\* in the list (ids of no known incentive included), so that the totals add up to
\* the sum of all amounts of the list.
C5_LoadSums ==
    [][(loadPc = "contribs" /\ reply # NoReply /\ loadPc' = "done")
       => /\ AllInt(totals')
          /\ DOMAIN totals' = IdsIn(reply.rows)
          /\ \A id \in IdsIn(reply.rows) :
                 totals'[id] = Num(SumAmounts(RowsOf(reply.rows, id)))
          /\ SumValues(totals') = SumAmounts(reply.rows)]_vars

\* a list of three records, two of them of an id that no incentive has, has been
\* aggregated
C5_Witness ==
    /\ loadPc = "done"
    /\ Len(dbContribs) = 3
    /\ DOMAIN totals = {"a1", "zz"}
    /\ totals["zz"] = Num(8)
    /\ totals["a1"] = Num(-4)

\* C6: for every incentive the log is sorted non-increasing by created_at in
\* every reachable state: logs[i] in part_000, the list of each card in
\* IncentiveDashboard.jsx.
C6_LogsSorted ==
    /\ variant = "p0" => \A i \in DOMAIN logs : NonIncreasing(logs[i])
    /\ variant = "jsx" =>
           \A i \in Ids(incentives) : NonIncreasing(CardList(contribs, i))

\* C7: in every reachable state the Tier-3 achieved value is the Tier-2 achieved
\* value, and the Tier-3 target is 150000.
C7_Tier3MirrorsTier2 ==
    variant \in Tiered
    => /\ Achieved("sales3") = Achieved("sales2")
       /\ Target("sales3") = Num(150000)

\* the Tier-2 incentive has a total of 4 and Tier 3 shows 4 as well
C7_Witness ==
    /\ variant = "jsx"
    /\ sales2 # << >>
    /\ Lookup(totals, "s2") = Num(4)
    /\ sales3Achieved = Num(4)

\* the positions of the incentives whose name is on the activity list
OnList == {n \in 1..Len(incentives) : incentives[n].name \in TIER1_NAMES}

RECURSIVE SumTargetsAt(_)
SumTargetsAt(S) ==
    IF S = {} THEN 0
    ELSE LET n == CHOOSE x \in S : TRUE
         IN  incentives[n].target.n + SumTargetsAt(S \ {n})

RECURSIVE SumTotalsAt(_)
SumTotalsAt(S) ==
    IF S = {} THEN 0
    ELSE LET n == CHOOSE x \in S : TRUE
         IN  IntOf(totals, incentives[n].id) + SumTotalsAt(S \ {n})

\* C8: the activity tier's target is the sum of target over exactly the
\* incentives whose name is on the six-name list and its achieved value the sum
\* of totals[id] over the same incentives, one without contributions counting as
\* 0; with A (target 10, total 4) and B (target 20, total 4) that is achieved 8,
\* target 30, percent 8/30. Incentives off the list never contribute.
C8_ActivityTierSums ==
    variant \in Tiered
    => /\ Target("tier1") = Num(SumTargetsAt(OnList))
       /\ Achieved("tier1") = Num(SumTotalsAt(OnList))
       /\ (IntOf(totals, "a1") = 4 /\ IntOf(totals, "a2") = 4
           /\ incentives # << >> /\ OnList = {1, 2})
          => /\ Achieved("tier1") = Num(8)
             /\ Target("tier1") = Num(30)
             /\ Percent("tier1") = Rat(8, 30)

\* A (target 10) and B (target 20) both stand at 4
C8_Witness ==
    /\ variant \in Tiered
    /\ Len(incentives) = 3
    /\ incentives[1].target = Num(10)
    /\ incentives[2].target = Num(20)
    /\ Lookup(totals, "a1") = Num(4)
    /\ Lookup(totals, "a2") = Num(4)
    /\ Achieved("tier1") = Num(8)

\* the positions of the incentives named "Sales Incentive - Tier 2"
Named == {n \in 1..Len(incentives) : incentives[n].name = "Sales Incentive - Tier 2"}

\* C9: (IncentiveDashboard.jsx, part_000) with no incentive named "Sales
\* Incentive - Tier 2" the Tier-2 achieved value is 0 and its target 100000; with
\* one, the target is that incentive's target and the achieved value its total,
\* 0 without contributions. The second component of part_002 agrees wherever it
\* shows the Tier-2 summary.
C9_SalesTier2 ==
    /\ variant \in {"jsx", "p0"}
       => IF Named = {}
          THEN Achieved("sales2") = Num(0) /\ Target("sales2") = Num(100000)
          ELSE LET i == incentives[CHOOSE n \in Named : \A m \in Named : n <= m]
               IN  /\ Target("sales2") = i.target
                   /\ Achieved("sales2") = Num(IntOf(totals, i.id))
    /\ variant = "p2"
       => IF Named = {}
          THEN Achieved("sales2") = Num(0)
          ELSE LET i == incentives[CHOOSE n \in Named : \A m \in Named : n <= m]
               IN  /\ Target("sales2") = i.target
                   /\ Achieved("sales2") = Num(IntOf(totals, i.id))

\* the incentives are loaded, none has the Tier-2 name, another one has a total,
\* and Tier 2 shows 0 of 100000
C9_Witness ==
    /\ variant = "p0"
    /\ incentives # << >>
    /\ Named = {}
    /\ Lookup(totals, "x1") = Num(4)
    /\ sales2Total = Num(0)
    /\ P0_sales2Target = Num(100000)

\* C10: for every tier summary of every variant that shows them, the percent is
\* min(achieved / target, 1) when target > 0 and 0 otherwise, and the remaining
\* line, where there is one, is max(target - achieved, 0).
C10_PercentAndRemaining ==
    \A tier \in Tiers :
        Shown(tier)
        => /\ Percent(tier) =
                  IF Gt(Target(tier), Num(0))
                  THEN MathMin(Div(Achieved(tier), Target(tier)), Num(1))
                  ELSE Num(0)
           /\ variant \in {"jsx", "p0"} =>
                  RemainingShown(tier) =
                      MathMax(Minus(Target(tier), Achieved(tier)), Num(0))

\* the amount fields that hold a finite non-zero number, and the number typed
ValidInputs == {Str("4"), Str("-4")}
Typed(raw) == IF raw = Str("4") THEN 4 ELSE -4

\* C11: in each variant with an Add and a Deduct button (part_000,
\* IncentiveDashboard.jsx, the second component of part_002), for every finite
\* non-zero value v in the amount field, whatever its sign, Add records a
\* contribution of delta |v| and Deduct one of delta -|v|: the insert issued
\* carries that amount and, where the submit is optimistic, the total moves by it.
C11_SignedDelta ==
    [][nsub' = nsub + 1
       => \A n \in 1..Len(Cards), raw \in ValidInputs, isDeduct \in Buttons,
             note \in Notes :
              (variant \in {"p0", "jsx", "p2"} /\ SubmitWith(n, raw, isDeduct, note))
              => LET i == Cards[n].id
                     d == IF isDeduct THEN -Abs(Typed(raw)) ELSE Abs(Typed(raw))
                 IN  /\ live => /\ nsub + 1 \in DOMAIN writes'
                                /\ writes'[nsub + 1].inc = i
                                /\ writes'[nsub + 1].amount = Num(d)
                     /\ variant \in Optimistic =>
                            IntOf(totals', i) = IntOf(totals, i) + d]_vars

\* C12: a contribution record whose amount is missing or undefined contributes 0
\* wherever it is folded into totals, by the aggregation of the load and by the
\* INSERT handlers alike, so that every totals[i] stays a finite number.
C12_MissingAmountIsZero ==
    [][/\ (loadPc = "contribs" /\ reply # NoReply /\ loadPc' = "done")
          => \A id \in IdsIn(reply.rows) :
                 /\ id \in DOMAIN totals'
                 /\ totals'[id] = Num(SumAmounts(RowsOf(reply.rows, id)))
       /\ \A r \in channel :
              channel' = channel \ {r}
              => /\ r.incentive_id \in DOMAIN totals'
                 /\ totals'[r.incentive_id] =
                        Num(IntOf(totals, r.incentive_id) + r.amount.n)]_vars

\* C13: the aggregation of the load is idempotent: called a second time with the
\* same list (recomputeFromContribs in part_000, updateFromContributions with
\* append = false in the second component of part_002) it leaves totals and logs
\* as the first call left them.
C13_RecomputeIdempotent ==
    [][(variant \in {"p0", "p2"} /\ loadPc = "done" /\ loadPc' = "again")
       => totals' = totals /\ logs' = logs]_vars

\* the inserts that the store commits in a step
Committing == {w \in DOMAIN writes \cap DOMAIN writes' :
                   writes[w].status = "sent" /\ writes'[w].status = "ok"}

\* C14: every valid live-mode submit issues exactly one insert, carrying
\* {incentive_id, amount, note} with the amount applied optimistically; the store
\* commits at most one row for it; a failed insert is dropped and never issued
\* again; an invalid submit and a demo-mode submit issue no store operation.
C14_OneInsertPerSubmit ==
    [][/\ DOMAIN writes' \subseteq DOMAIN writes \cup {nsub + 1}
       /\ nsub + 1 \in DOMAIN writes' <=> (live /\ nsub' = nsub + 1)
       /\ (live /\ nsub' = nsub + 1)
          => LET w == writes'[nsub + 1]
             IN  /\ w.status = "sent"
                 /\ w.inc \in Ids(incentives)
                 /\ IsNum(w.amount) /\ w.amount.n # 0
                 /\ variant \in Optimistic =>
                        IntOf(totals', w.inc) = IntOf(totals, w.inc) + w.amount.n
                 /\ dbContribs' = dbContribs
       /\ \A w \in DOMAIN writes \cap DOMAIN writes' :
              /\ writes'[w].inc = writes[w].inc
              /\ writes'[w].amount = writes[w].amount
              /\ writes'[w].note = writes[w].note
              /\ writes[w].status = "ok" => writes'[w] = writes[w]
       /\ Len(dbContribs') = Len(dbContribs) + Cardinality(Committing)
                                 + (nother' - nother)
       /\ \A w \in Committing :
              LET row == dbContribs'[Len(dbContribs')]
              IN  /\ row.incentive_id = writes[w].inc
                  /\ row.amount = writes[w].amount
                  /\ row.note = writes[w].note
       /\ \A w \in DOMAIN writes \ DOMAIN writes' :
              nsub' = nsub /\ dbContribs' = dbContribs
       /\ ~ live => dbContribs' = << >> /\ writes' = EmptyMap
       /\ (writes' # writes \/ dbContribs' # dbContribs)
          => \A n \in 1..Len(Cards), raw \in InvalidInputs, isDeduct \in Buttons,
                note \in Notes :
                 ~ SubmitWith(n, raw, isDeduct, note)]_vars

\* IncentiveDashboard.jsx: of two submits one insert was committed and the other
\* failed; the store holds one row and no insert is pending
C14_Witness ==
    /\ variant = "jsx"
    /\ live
    /\ nsub = 2
    /\ nother = 0
    /\ writes = EmptyMap
    /\ error = InsertError
    /\ Len(dbContribs) = 1

\* the entries of a map other than the one of id are the same in a and b
SameExcept(a, b, id) ==
    \A k \in (DOMAIN a \cup DOMAIN b) \ {id} :
        k \in DOMAIN a /\ k \in DOMAIN b /\ a[k] = b[k]

\* C15: a delivered contributions-INSERT notification carrying row r adds r.amount
\* to totals[r.incentive_id] and puts r first in that incentive's log (logs in
\* part_000 and part_002, contribs in IncentiveDashboard.jsx); no other total or
\* log changes.
C15_NotificationMerged ==
    [][\A r \in channel :
           channel' = channel \ {r}
           => LET id == r.incentive_id
              IN  /\ id \in DOMAIN totals'
                  /\ totals'[id] = Num(IntOf(totals, id) + r.amount.n)
                  /\ SameExcept(totals, totals', id)
                  /\ variant \in {"p0", "p2"}
                     => /\ id \in DOMAIN logs'
                        /\ logs'[id] = << r >> \o LogOf(logs, id)
                        /\ SameExcept(logs, logs', id)
                        /\ contribs' = contribs
                  /\ variant = "jsx"
                     => /\ contribs' = << r >> \o contribs
                        /\ logs' = logs]_vars

\* part_000: two rows of other clients on one incentive were notified one after
\* the other; the later one is first in the log and both are in the total
C15_Witness ==
    /\ variant = "p0"
    /\ loadPc = "done"
    /\ nsub = 0
    /\ nother = 2
    /\ now = 0
    /\ channel = {}
    /\ Len(dbContribs) = 2
    /\ dbContribs[1].incentive_id = dbContribs[2].incentive_id
    /\ LogOf(logs, dbContribs[1].incentive_id) = << dbContribs[2], dbContribs[1] >>
    /\ IntOf(totals, dbContribs[1].incentive_id) = 8

\* C16: in demo mode the state is locally persisted; reloading the dashboard
\* after any valid submits restores exactly the totals shown before the reload
\* and, where a log is kept, its entries.
C16_DemoStatePersisted ==
    [][Reload
       => /\ \A n \in 1..Len(incentives) :
                 IntOf(totals', incentives[n].id) = IntOf(totals, incentives[n].id)
          /\ variant = "jsx" => contribs' = contribs
          /\ variant = "p0" =>
                 \A n \in 1..Len(incentives) :
                     LogOf(logs', incentives[n].id) = LogOf(logs, incentives[n].id)]_vars

\* C17: when the incentives read or the contributions read of the initial load
\* fails, the load ends with loading = false, leaves totals and logs as they
\* were before it (empty when no submit and no notification touched them), logs
\* the failure or stores it in the error state, and issues no read again.
C17_FailedLoadEnds ==
    [][/\ (variant # "p2" /\ loadPc \in {"incs", "contribs"} /\ loadPc' = "failed")
          => /\ loading' = FALSE
             /\ totals' = totals /\ logs' = logs /\ contribs' = contribs
             /\ (nsub = 0 /\ dbContribs = << >>)
                => totals' = EmptyMap /\ logs' = EmptyMap /\ contribs' = << >>
             /\ IF variant = "p0" THEN consoleErr' = ReadError
                                  ELSE error' = ReadError
             /\ reply' = NoReply
       /\ loadPc = "failed"
          => /\ loadPc' = "failed"
             /\ reply' = NoReply
             /\ loading' = FALSE
             /\ incentives' = incentives]_vars

\* part_000: the incentives were read and the contributions read failed
C17_Witness ==
    /\ variant = "p0"
    /\ loadPc = "failed"
    /\ incentives # << >>
    /\ ~ loading
    /\ consoleErr = ReadError
    /\ totals = EmptyMap
    /\ logs = EmptyMap

\* the sum of amount over the inserts of incentive i that await their outcome
RECURSIVE PendingSum(_, _)
PendingSum(ws, i) ==
    IF DOMAIN ws = {} THEN 0
    ELSE LET w == CHOOSE x \in DOMAIN ws : TRUE
         IN  (IF ws[w].inc = i /\ ws[w].status = "sent" THEN ws[w].amount.n ELSE 0)
             + PendingSum(Without(ws, w), i)

\* the stored rows whose notification has been delivered
Delivered == SelectSeq(dbContribs, LAMBDA r : r \notin channel)

\* C18: the optimistic variants do not deduplicate the echo of their own write:
\* a submit of d on incentive i whose insert succeeded and whose notification
\* was delivered to the same client has raised totals[i] by 2*d, once for the
\* optimistic update and once for the notification (a submit whose notification
\* is still on its way, or whose insert is pending, has raised it by d).
C18_OwnEchoCountedTwice ==
    \A i \in Ids(incentives) \cup DOMAIN totals :
        IntOf(totals, i) = PendingSum(writes, i)
                           + SumAmounts(RowsOf(dbContribs, i))
                           + SumAmounts(RowsOf(Delivered, i))

\* part_000: one Add of 4 was stored and its notification delivered; the total
\* stands at 8
C18_Witness ==
    /\ variant = "p0"
    /\ nsub = 1
    /\ writes = EmptyMap
    /\ channel = {}
    /\ Len(dbContribs) = 1
    /\ dbContribs[1].amount = Num(4)
    /\ IntOf(totals, dbContribs[1].incentive_id) = 8

\* C19: a contribution inserted by another client is counted exactly once in
\* totals, whatever the order of its notification relative to the start and the
\* completion of the initial load and to the moment the subscription is
\* established: with no submit of this dashboard, once the load is over, the
\* channel is joined and no notification is on its way, totals[i] is the sum of
\* amount over the stored contributions of incentive i. Stated for the variants
\* in which loadPc = "done" tells that both reads returned data.
C19_OtherWritesCountedOnce ==
    (/\ variant # "p2"
     /\ live
     /\ nsub = 0
     /\ loadPc = "done"
     /\ subPc = "joined"
     /\ channel = {})
    => \A i \in IdsIn(dbContribs) \cup DOMAIN totals :
           IntOf(totals, i) = SumAmounts(RowsOf(dbContribs, i))

\* the temporary ids of the inserts in ws
TempIds(ws) == {ws[w].tempId : w \in DOMAIN ws}

\* the ids of the placeholders in a list of contributions
LocalIds(rows) == {id \in RowIds(rows) : id[1] = "local"}

\* C20: in IncentiveDashboard.jsx, when the insert succeeds and returns the
\* stored row, the placeholder carrying that write's temporary id is removed from
\* contribs and the stored row is put at the head in its place, with the other
\* entries kept in their order and totals unchanged; no placeholder of a
\* confirmed write remains in contribs.
C20_PlaceholderReplaced ==
    [][(variant = "jsx" /\ live)
       => /\ \A w \in DOMAIN writes \ DOMAIN writes' :
                 writes[w].status = "ok"
                 => /\ contribs' # << >>
                    /\ Head(contribs') = writes[w].data
                    /\ Tail(contribs') =
                           SelectSeq(contribs, LAMBDA c : c.id # writes[w].tempId)
                    /\ writes[w].tempId \notin RowIds(contribs')
                    /\ totals' = totals
          /\ LocalIds(contribs') \subseteq TempIds(writes')]_vars

\* IncentiveDashboard.jsx: the insert of one Add of 4 was committed and returned;
\* contribs holds the stored row alone and no placeholder
C20_Witness ==
    /\ variant = "jsx"
    /\ live
    /\ loadPc = "done"
    /\ nsub = 1
    /\ writes = EmptyMap
    /\ Len(dbContribs) = 1
    /\ contribs = << dbContribs[1] >>
    /\ IntOf(totals, dbContribs[1].incentive_id) = 4

\* the placeholder that the submit of insert w put in the log
PlaceholderOf(w) ==
    [id |-> writes[w].tempId, incentive_id |-> writes[w].inc,
     amount |-> writes[w].amount, note |-> writes[w].note,
     created_at |-> writes[w].tempId[2]]

\* the entries of a list other than the copies of entry e
Rest(rows, e) == SelectSeq(rows, LAMBDA r : r # e)

\* C21: a placeholder's temporary id never equals a server-assigned id and
\* identifies one placeholder: the remove-by-id of a rollback and the
\* replace-by-id of a confirmation take away the placeholder of the write
\* concerned and no other log entry, also when two submits are made while the
\* clock has not advanced.
C21_TempIdIdentifiesOne ==
    [][(live /\ variant \in {"jsx", "p0"})
       => \A w \in DOMAIN writes \ DOMAIN writes' :
              LET ph == PlaceholderOf(w)
                  got == IF writes[w].status = "ok" THEN << writes[w].data >> ELSE << >>
                  old == LogOf(logs, writes[w].inc)
                  new == LogOf(logs', writes[w].inc)
              IN  /\ writes[w].tempId \notin RowIds(dbContribs)
                  /\ variant = "jsx"
                     => /\ Rest(contribs', ph) = got \o Rest(contribs, ph)
                        /\ Len(contribs') >= Len(got) + Len(contribs) - 1
                  /\ variant = "p0"
                     => /\ Rest(new, ph) = Rest(old, ph)
                        /\ Len(new) >= Len(old) - 1]_vars

\* C22: within one client the optimistic updates are applied in call order: a
\* submit adds its delta to the total that holds the deltas of the submits before
\* it and puts its placeholder before theirs in the log; each rollback takes
\* back its own delta only, so that once every outcome has arrived the totals
\* are fixed by which inserts were stored, not by the order of the callbacks.
C22_CallOrder ==
    [][/\ nsub' = nsub + 1
          => LET w == writes'[nsub + 1]
                 ph == [id |-> w.tempId, incentive_id |-> w.inc, amount |-> w.amount,
                        note |-> w.note, created_at |-> w.tempId[2]]
             IN  /\ totals'[w.inc] =
                        Num(PendingSum(writes, w.inc)
                            + SumAmounts(RowsOf(dbContribs, w.inc))
                            + SumAmounts(RowsOf(Delivered, w.inc))
                            + w.amount.n)
                 /\ SameExcept(totals, totals', w.inc)
                 /\ variant = "p0"
                    => logs'[w.inc] = << ph >> \o LogOf(logs, w.inc)
                 /\ variant = "jsx" => contribs' = << ph >> \o contribs
       /\ \A w \in DOMAIN writes \ DOMAIN writes' :
              writes[w].status = "sent"
              => /\ totals'[writes[w].inc] =
                        Num(IntOf(totals, writes[w].inc) - writes[w].amount.n)
                 /\ SameExcept(totals, totals', writes[w].inc)
       /\ (writes' = EmptyMap /\ channel' = {})
          => \A i \in Ids(incentives) \cup DOMAIN totals' :
                 IntOf(totals', i) = 2 * SumAmounts(RowsOf(dbContribs', i))]_vars

\* part_000: an Add of 4 and then a Deduct of 4 on one incentive are both
\* awaiting their outcome; the later placeholder is first in the log
C22_Witness ==
    /\ variant = "p0"
    /\ DOMAIN writes = {1, 2}
    /\ writes[1].status = "sent"
    /\ writes[2].status = "sent"
    /\ writes[1].inc = writes[2].inc
    /\ writes[1].amount = Num(4)
    /\ writes[2].amount = Num(-4)
    /\ IntOf(totals, writes[1].inc) = 0
    /\ Len(LogOf(logs, writes[1].inc)) = 2
    /\ LogOf(logs, writes[1].inc)[1].amount = Num(-4)
    /\ LogOf(logs, writes[1].inc)[2].amount = Num(4)

\* list b is list a with entries added at its end
Extends(a, b) == Len(b) >= Len(a) /\ SubSeq(b, 1, Len(a)) = a

\* C23: incentives are immutable once in the list: the load sets the list, and
\* outside the load no operation removes or alters an incentive on display; the
\* incentives-INSERT handler and handleAddIncentive only append, so after a
\* demo-mode handleAddIncentive the list holds every incentive displayed before
\* (the seeded ones included) followed by the new one.
C23_IncentivesOnlyAppended ==
    [][loadPc' = loadPc => Extends(incentives, incentives')]_vars

\* the names that are empty or hold white space only
BlankNames == {"", "  "}

\* the targets that are not finite or not greater than 0
BadTargets == {Str(""), Str("abc"), Str("0"), Str("-4")}

\* an incentive with a non-empty trimmed name and a target greater than 0
WellFormed(inc) ==
    /\ inc.name = "Bonus"
    /\ IsNum(inc.target)
    /\ inc.target.n > 0

\* C24: handleAddIncentive called with an empty or white-space name, or with a
\* target that is not finite or not greater than 0, leaves the incentives list
\* and the persisted incentives unchanged, issues no insert and sets an error
\* message; every incentive it creates has a non-empty trimmed name and a
\* target greater than 0.
C24_InvalidIncentiveRejected ==
    [][/\ \A rawName \in NewNames, rawTarget \in RawInputs \ {Undefined} :
              (/\ rawName \in BlankNames \/ rawTarget \in BadTargets
               /\ AddIncentiveWith(rawName, rawTarget))
              => /\ incentives' = incentives
                 /\ storage' = storage
                 /\ dbIncentives' = dbIncentives
                 /\ incChannel' = incChannel
                 /\ error' \in {"Please enter a name for the incentive.",
                                "Target must be a positive number."}
       /\ Len(dbIncentives') > Len(dbIncentives)
          => /\ Len(dbIncentives') = Len(dbIncentives) + 1
             /\ WellFormed(dbIncentives'[Len(dbIncentives')])
       /\ \A n \in 1..Len(storage'.demo_incentives) :
              WellFormed(storage'.demo_incentives[n])
       /\ \A row \in incChannel' : WellFormed(row)]_vars

\* part_001 in demo mode: one incentive was created, and a later call with a
\* target that is not positive was turned down
C24_Witness ==
    /\ variant = "p1"
    /\ ~ live
    /\ storage.has_incentives
    /\ Len(storage.demo_incentives) = 1
    /\ incentives = storage.demo_incentives
    /\ error = "Target must be a positive number."

\* C25: on a contributions-DELETE notification the client discards its totals
\* and logs and recomputes them from a full refetch, so that once the deletion
\* has been notified totals[i] is the sum of amount over the contributions of i
\* that remain in the store.
C25_DeleteRecomputed ==
    channel = {}
    => \A i \in IdsIn(dbContribs) \cup DOMAIN totals :
           IntOf(totals, i) = SumAmounts(RowsOf(dbContribs, i))

\* the entries of incentive i in the log on display
LogEntries(i) ==
    IF variant = "p0" THEN LogOf(logs, i) ELSE RowsOf(contribs, i)

\* the placeholders in a list have pairwise distinct ids
DistinctIn(rows) ==
    \A j, k \in 1..Len(rows) :
        (j # k /\ rows[j].id[1] = "local") => rows[j].id # rows[k].id

\* the placeholders in the log have pairwise distinct ids
DistinctPlaceholders ==
    IF variant = "p0" THEN \A i \in DOMAIN logs : DistinctIn(logs[i])
    ELSE DistinctIn(contribs)

\* the writes in flight carry pairwise distinct temporary ids
DistinctPending ==
    \A w1, w2 \in DOMAIN writes :
        writes[w1].tempId = writes[w2].tempId => w1 = w2

\* totals and the log agree on every incentive
Consistent ==
    \A i \in Ids(incentives) \cup DOMAIN totals \cup DOMAIN logs \cup IdsIn(contribs) :
        IntOf(totals, i) = SumAmounts(LogEntries(i))

\* the dashboard in the runs where Date.now() gives every placeholder an id of
\* its own: no step leaves two placeholders, or two writes in flight, with the
\* same temporary id
SpecUnique ==
    Init /\ [][\/ Tick
               \/ ExternalInsert
               \/ ChannelJoined
               \/ Mount
               \/ LoadIncentives
               \/ LoadIncentivesFails
               \/ ServeContributions
               \/ LoadContributions
               \/ LoadContributionsFails
               \/ Notify
               \/ (Submit /\ DistinctPlaceholders' /\ DistinctPending')
               \/ ServeInsert
               \/ InsertReturns
               \/ InsertFails]_vars

\* C26: in live mode, in part_000 and IncentiveDashboard.jsx, totals and the log
\* are consistent in every state reached while the placeholder ids are pairwise
\* distinct: totals[i] (0 when absent) is the sum of amount over the entries in
\* i's log, placeholders and notification rows included.
C26_TotalsMatchLog ==
    (live /\ variant \in {"p0", "jsx"}) => Consistent

\* part_000: a stored Add of 4 whose notification was delivered; the log holds
\* the placeholder and the notified row and the total is 8
C26_Witness ==
    /\ variant = "p0"
    /\ live
    /\ Consistent
    /\ nsub = 1
    /\ writes = EmptyMap
    /\ channel = {}
    /\ Len(dbContribs) = 1
    /\ Len(LogOf(logs, dbContribs[1].incentive_id)) = 2
    /\ IntOf(totals, dbContribs[1].incentive_id) = 8

\* the entries of incentive i in a log lg (part_000) or a list cs of contributions
LogEntriesOf(lg, cs, i) ==
    IF variant = "p0" THEN LogOf(lg, i) ELSE RowsOf(cs, i)

\* a step leaves alone the total and the log entries of every incentive but i,
\* and the incentives list
OnlyTouches(i) ==
    /\ SameExcept(totals, totals', i)
    /\ \A j \in (Ids(incentives) \cup DOMAIN logs \cup DOMAIN logs'
                 \cup IdsIn(contribs) \cup IdsIn(contribs')) \ {i} :
           LogEntriesOf(logs', contribs', j) = LogEntriesOf(logs, contribs, j)
    /\ incentives' = incentives

\* C27: every operation that applies a contribution for incentive i (optimistic
\* submit, rollback, confirmation, INSERT notification) leaves the total and the
\* log entries of every other incentive unchanged, and the incentives list too.
C27_OtherIncentivesUntouched ==
    [][live
       => /\ nsub' = nsub + 1 => OnlyTouches(writes'[nsub + 1].inc)
          /\ \A w \in DOMAIN writes \ DOMAIN writes' : OnlyTouches(writes[w].inc)
          /\ \A r \in channel :
                 channel' = channel \ {r} => OnlyTouches(r.incentive_id)]_vars

\* C28: in IncentiveDashboard.jsx contribs never holds two entries with the
\* same id; in particular a stored row appears once although it arrives both as
\* the row the insert returns and as an INSERT notification. Stated for the
\* server-assigned ids (two placeholders with one temporary id are C21's case).
C28_NoDuplicateEntries ==
    variant = "jsx"
    => \A j, k \in 1..Len(contribs) :
           (j # k /\ contribs[j].id[1] = "srv") => contribs[j].id # contribs[k].id

\* the ids of a list of rows are pairwise distinct
DistinctRows(rows) ==
    \A j, k \in 1..Len(rows) : j # k => rows[j].id # rows[k].id

\* C29: in the non-optimistic variant (addContribution of part_002's second
\* component) a submit changes totals and logs only through the INSERT
\* notification: the click, the commit and the outcome of the insert leave them
\* unchanged, a notified row is counted once and stays counted, a failed insert
\* leaves them unchanged, and the amount and note fields are cleared when the
\* insert has returned, whatever its outcome.
C29_OnlyNotificationCounts ==
    [][variant = "p2"
       => /\ nsub' = nsub + 1
             => /\ totals' = totals /\ logs' = logs
                /\ nsub + 1 \in DOMAIN writes'
                /\ writes'[nsub + 1].status = "sent"
                /\ writes'[nsub + 1].inc \in filled'
          /\ \A w \in DOMAIN writes \ DOMAIN writes' :
                 /\ totals' = totals /\ logs' = logs
                 /\ writes[w].inc \notin filled'
          /\ (totals' # totals \/ logs' # logs)
             => \/ loadPc' # loadPc
                \/ \E r \in channel :
                       /\ channel' = channel \ {r}
                       /\ totals'[r.incentive_id] =
                              Num(IntOf(totals, r.incentive_id) + r.amount.n)
                       /\ Head(logs'[r.incentive_id]) = r
          /\ \A i \in DOMAIN logs' :
                 /\ DistinctRows(logs'[i])
                 /\ IntOf(totals', i) = SumAmounts(logs'[i])
          /\ \A i \in DOMAIN logs :
                 loadPc' = loadPc
                 => \A k \in 1..Len(logs[i]) :
                        \E j \in 1..Len(logs'[i]) : logs'[i][j] = logs[i][k]]_vars

\* part_002: the load found the row of another client; then an Add of 4 on the
\* same incentive was stored, its notification delivered and its fields
\* cleared: its row is first in the log, once, and the total is 8
C29_Witness ==
    /\ variant = "p2"
    /\ loadPc = "done"
    /\ now = 0
    /\ nsub = 1
    /\ nother = 1
    /\ writes = EmptyMap
    /\ channel = {}
    /\ filled = {}
    /\ Len(dbContribs) = 2
    /\ LogOf(logs, dbContribs[1].incentive_id) = << dbContribs[2], dbContribs[1] >>
    /\ IntOf(totals, dbContribs[1].incentive_id) = 8

\* the placeholders on display
Placeholders ==
    LocalIds(contribs)
    \cup UNION {LocalIds(logs[i]) : i \in DOMAIN logs}

\* C30: in the variants with a loading flag no submit is applied while the
\* initial load is in flight (the cards exist only when loading = false, and the
\* load runs once): the steps of the load find no submit made, no insert pending
\* and no placeholder on display, so its assignment of totals and logs never
\* overwrites an optimistic delta, and a rollback always acts after the load,
\* on totals that still hold its delta.
C30_NoSubmitDuringLoad ==
    [][variant # "p2"
       => /\ nsub' = nsub + 1
             => /\ ~ loading
                /\ loadPc \in {"done", "failed"}
          /\ loadPc' # loadPc
             => /\ nsub = 0
                /\ writes = EmptyMap
                /\ Placeholders = {}
          /\ loadPc \in {"done", "failed"} => loadPc' = loadPc /\ ~ loading'
          /\ \A w \in DOMAIN writes \ DOMAIN writes' :
                 /\ loadPc \in {"done", "failed"}
                 /\ writes[w].status = "sent"
                    => IntOf(totals', writes[w].inc)
                           = IntOf(totals, writes[w].inc) - writes[w].amount.n]_vars

\* part_000: the load ended, and afterwards a submit was made whose insert
\* failed and was rolled back
C30_Witness ==
    /\ variant = "p0"
    /\ live
    /\ loadPc = "done"
    /\ ~ loading
    /\ nsub = 1
    /\ writes = EmptyMap
    /\ alerted = InsertError
    /\ dbContribs = << >>
    /\ \A i \in DOMAIN totals : IntOf(totals, i) = 0

====
